---- MODULE Spec2Model ----
(***************************************************************************)
(* Model of import/hgnc_families.py: the flattening of the HGNC family     *)
(* hierarchy into FamPlex "isa" relations, the detection of families that  *)
(* FamPlex already holds, and the appends to the three resource files.     *)
(*                                                                         *)
(* Python strings that the program sorts, matches or rewrites (gene names, *)
(* family ids, FamPlex ids) are sequences of one-character strings; the    *)
(* fixed tags ("HGNC", "FPLX", "isa", "HGNC_GROUP") are plain strings.     *)
(***************************************************************************)
EXTENDS Integers, Sequences, FiniteSets, TLC

VARIABLES
    families,          \* family id -> [abbreviation, name]      (family.csv)
    children,          \* parent id -> sequence of child ids     (hierarchy.csv)
    family_to_gene,    \* family id -> sequence of gene ids      (gene_has_family.csv)
    hgnc_names,        \* gene id -> display name; no entry: get_hgnc_name gives None
    argv,              \* the root family ids of the command line
    pc,                \* position of __main__
    root_idx,          \* index in argv of the root being loaded
    stack,             \* call frames of get_relations_from_root, top first
    acc,               \* the relations list shared by the frames of one root
    relations,         \* __main__'s relations
    totally_redundant, \* the result of find_overlaps
    entities,          \* __main__'s entities
    relations_csv,     \* rows of relations.csv
    entities_csv,      \* rows of entities.csv
    equivalences_csv,  \* rows of equivalences.csv
    rel_base,          \* rows relations.csv held when the run started
    error,             \* the exception that ended the run, [type, arg]
    id_family,         \* argument of a lone call of get_famplex_id
    id_result          \* its result

vars == <<families, children, family_to_gene, hgnc_names, argv, pc, root_idx,
          stack, acc, relations, totally_redundant, entities, relations_csv,
          entities_csv, equivalences_csv, rel_base, error, id_family, id_result>>

catalog_vars == <<families, children, family_to_gene, hgnc_names, argv>>
file_vars == <<relations_csv, entities_csv, equivalences_csv>>
id_vars == <<id_family, id_result>>

(***************************************************************************)
(* Python str: comparison, strip, replace, int(), str().                   *)
(***************************************************************************)

\* The characters in use, in code point order.
CodePoints ==
    <<" ", ",", "-", "0", "1", "2", "3", "9", "A", "B", "C", "D", "F", "G",
      "P", "R", "W", "X", "_", "a", "o", "r", "z">>

Ord(c) == CHOOSE i \in 1..Len(CodePoints) : CodePoints[i] = c

Digits == {"0", "1", "2", "3", "9"}

DigitValue(c) ==
    CASE c = "0" -> 0 [] c = "1" -> 1 [] c = "2" -> 2 [] c = "3" -> 3 [] c = "9" -> 9

RECURSIVE StrLess(_, _)
\* a < b on str: lexicographic by code point.
StrLess(a, b) ==
    IF b = <<>> THEN FALSE
    ELSE IF a = <<>> THEN TRUE
    ELSE IF Head(a) = Head(b) THEN StrLess(Tail(a), Tail(b))
    ELSE Ord(Head(a)) < Ord(Head(b))

RECURSIVE LStrip(_)
LStrip(s) == IF s # <<>> /\ Head(s) = " " THEN LStrip(Tail(s)) ELSE s

RECURSIVE RStrip(_)
RStrip(s) ==
    IF s # <<>> /\ s[Len(s)] = " " THEN RStrip(SubSeq(s, 1, Len(s) - 1)) ELSE s

\* str.strip()
Strip(s) == RStrip(LStrip(s))

RECURSIVE Replace(_, _, _)
\* str.replace(old, new): every non-overlapping occurrence, left to right.
Replace(s, old, new) ==
    IF Len(s) < Len(old) THEN s
    ELSE IF SubSeq(s, 1, Len(old)) = old
         THEN new \o Replace(SubSeq(s, Len(old) + 1, Len(s)), old, new)
         ELSE <<Head(s)>> \o Replace(Tail(s), old, new)

\* int(s) succeeds on a string of decimal digits (the ids here hold no sign, blank
\* or underscore).
IsIntLiteral(s) == s # <<>> /\ \A i \in 1..Len(s) : s[i] \in Digits

RECURSIVE IntOf(_)
IntOf(s) == IF s = <<>> THEN 0 ELSE 10 * IntOf(SubSeq(s, 1, Len(s) - 1)) + DigitValue(s[Len(s)])

DigitChar(d) == CHOOSE c \in Digits : DigitValue(c) = d

RECURSIVE StrOf(_)
\* str(n) on a non-negative int.
StrOf(n) == IF n < 10 THEN <<DigitChar(n)>> ELSE StrOf(n \div 10) \o <<DigitChar(n % 10)>>

(***************************************************************************)
(* Identifier normalisation.                                               *)
(***************************************************************************)

\* get_famplex_id with the comma and the space after it dropped together.
get_famplex_id_comma_space(family) ==
    IF family.abbreviation # <<>>
    THEN Replace(Strip(family.abbreviation), <<",", " ">>, <<"_">>)
    ELSE Replace(Replace(Replace(Strip(family.name), <<",", " ">>, <<>>),
                         <<" ">>, <<"_">>),
                 <<"-">>, <<"_">>)

\* get_famplex_id: the dict replaces is applied in insertion order.
get_famplex_id(family) ==
    IF family.abbreviation # <<>>
    THEN Replace(Strip(family.abbreviation), <<",", " ">>, <<"_">>)
    ELSE Replace(Replace(Replace(Strip(family.name), <<" ">>, <<"_">>),
                         <<"-">>, <<"_">>),
                 <<",">>, <<>>)

\* is_pseudogene with the pattern asking for two digits before the P.
is_pseudogene_two_digits(gene) ==
    /\ Len(gene) >= 3
    /\ gene[Len(gene)] = "P"
    /\ gene[Len(gene) - 1] \in Digits
    /\ gene[Len(gene) - 2] \in Digits

\* is_pseudogene: re.match(r'^.*\d+P$', gene), a digit right before a final P.
is_pseudogene(gene) ==
    /\ Len(gene) >= 2
    /\ gene[Len(gene)] = "P"
    /\ gene[Len(gene) - 1] \in Digits

(***************************************************************************)
(* The HGNC resource files and the FamPlex relation store the runs start   *)
(* from.                                                                   *)
(***************************************************************************)

\* Data rows of hierarchy.csv and gene_has_family.csv together.
MaxCatalogRows == 3
\* Frames of get_relations_from_root the interpreter allows before it raises
\* RecursionError (sys.getrecursionlimit(), 1000 by default): deeper than any
\* acyclic hierarchy over the families here.
RecursionLimit == 4

F1 == <<"1">>
F2 == <<"2">>
F03 == <<"0", "3">>
F9 == <<"9">>          \* an id family.csv does not hold

\* family.csv: F1 is named, F2 and F03 carry an abbreviation. The FamPlex id of
\* F2 is also the display name of the gene g1.
FamilyTable ==
    (F1 :> [abbreviation |-> <<>>, name |-> <<"R", "-", "A">>])
    @@ (F2 :> [abbreviation |-> <<"G", "1">>, name |-> <<"G", " ", "1">>])
    @@ (F03 :> [abbreviation |-> <<"C", ",", " ", "D">>, name |-> <<"C", "D">>])

\* family.csv with F03 named so that its FamPlex id is that of F2.
FamilyTableTwin ==
    [FamilyTable EXCEPT ![F03] = [abbreviation |-> <<>>, name |-> <<"G", "1", " ">>]]

FamilyTables == {FamilyTable, FamilyTableTwin}

\* The name-resolution collaborator hgnc_client.get_hgnc_name: g3 resolves to a
\* pseudogene symbol, g4 to None.
HgncNames ==
    ("g1" :> <<"G", "1">>) @@ ("g2" :> <<"G", "2">>) @@ ("g3" :> <<"G", "2", "P">>)

\* Data rows hierarchy.csv may hold (parent, child), in file order; the header
\* row that _read_hierarchy_info skips is left out.
HierarchyRows ==
    <<<<F1, F1>>, <<F1, F2>>, <<F1, F03>>, <<F1, F9>>, <<F2, F1>>, <<F2, F03>>>>

\* Rows gene_has_family.csv may hold (gene, family), in file order.
GeneFamilyRows ==
    <<<<"g1", F1>>, <<"g2", F1>>, <<"g3", F1>>, <<"g4", F1>>,
      <<"g1", F2>>, <<"g2", F2>>, <<"g3", F2>>, <<"g4", F2>>,
      <<"g1", F03>>, <<"g2", F03>>, <<"g3", F03>>, <<"g4", F03>>>>

\* Rows relations.csv may hold before the run: the FamPlex families X and W.
StoreRows ==
    <<<<"HGNC", <<"G", "1">>, "isa", "FPLX", <<"X">>>>,
      <<"HGNC", <<"G", "2">>, "isa", "FPLX", <<"X">>>>,
      <<"HGNC", <<"G", "1">>, "isa", "FPLX", <<"W">>>>>>

Argvs == {<<F1>>, <<F03, F2>>, <<F9>>}

Range(s) == {s[i] : i \in 1..Len(s)}

RECURSIVE SubsetsUpTo(_, _)
\* The subsets of S of at most k elements.
SubsetsUpTo(S, k) ==
    IF k = 0 THEN {{}}
    ELSE LET P == SubsetsUpTo(S, k - 1)
         IN  P \cup {p \cup {x} : p \in P, x \in S}

\* The rows of `all` that `chosen` holds, in file order.
FileOf(all, chosen) == SelectSeq(all, LAMBDA row : row \in chosen)

\* _read_hierarchy_info: parent -> children in row order; only parents get a key.
read_hierarchy_info(rows) ==
    [p \in {row[1] : row \in Range(rows)} |->
        LET mine == SelectSeq(rows, LAMBDA row : row[1] = p)
        IN  [i \in 1..Len(mine) |-> mine[i][2]]]

\* _read_hgnc_family_genes: family -> genes in row order.
read_hgnc_family_genes(rows) ==
    [f \in {row[2] : row \in Range(rows)} |->
        LET mine == SelectSeq(rows, LAMBDA row : row[2] = f)
        IN  [i \in 1..Len(mine) |-> mine[i][1]]]

NoError == [type |-> "none", arg |-> <<>>]

Raise(type, arg) ==
    /\ pc' = "failed"
    /\ error' = [type |-> type, arg |-> arg]

Init ==
    /\ \E hier \in SubsetsUpTo(Range(HierarchyRows), MaxCatalogRows),
          gene \in SubsetsUpTo(Range(GeneFamilyRows), MaxCatalogRows) :
          /\ Cardinality(hier) + Cardinality(gene) <= MaxCatalogRows
          /\ children = read_hierarchy_info(FileOf(HierarchyRows, hier))
          /\ family_to_gene = read_hgnc_family_genes(FileOf(GeneFamilyRows, gene))
    /\ families \in FamilyTables
    /\ hgnc_names = HgncNames
    /\ argv \in Argvs
    /\ \E rows \in SUBSET Range(StoreRows) : relations_csv = FileOf(StoreRows, rows)
    /\ rel_base = relations_csv
    /\ entities_csv = <<>>
    /\ equivalences_csv = <<>>
    /\ pc = "load"
    /\ root_idx = 1
    /\ stack = <<>>
    /\ acc = <<>>
    /\ relations = <<>>
    /\ totally_redundant = {}
    /\ entities = <<>>
    /\ error = NoError
    /\ id_family = [abbreviation |-> <<>>, name |-> <<>>]
    /\ id_result = <<>>

(***************************************************************************)
(* get_relations_from_root, one frame per call.                            *)
(***************************************************************************)

\* family_to_gene is a defaultdict(list).
GeneMembers(fid) == IF fid \in DOMAIN family_to_gene THEN family_to_gene[fid] ELSE <<>>

\* children.get(fid): None when the family is no parent.
HasChildren(fid) == fid \in DOMAIN children
ChildIds(fid) == IF HasChildren(fid) THEN children[fid] ELSE <<>>

Frame(fid) == [root_id |-> fid, famplex_id |-> get_famplex_id(families[fid]),
               gi |-> 1, ci |-> 1]

Top == Head(stack)

\* The test of line 109 with the "not" lost.
Collapses_without_not(child_id) ==
    HasChildren(child_id) /\ Len(GeneMembers(child_id)) = 1

\* Lines 101-109: the child is elided when it has no children and one gene.
Collapses(child_id) == ~HasChildren(child_id) /\ Len(GeneMembers(child_id)) = 1

\* The gene relation carrying the root of the command line.
GeneRel_of_root(gene_name, frame) ==
    <<"HGNC", gene_name, "isa", "FPLX", frame.famplex_id, argv[root_idx]>>

\* Lines 97 and 117.
GeneRel(gene_name, frame) ==
    <<"HGNC", gene_name, "isa", "FPLX", frame.famplex_id, frame.root_id>>

\* Lines 122-125.
FamilyRel(child_id, frame) ==
    <<"FPLX", get_famplex_id(families[child_id]), "isa", "FPLX",
      frame.famplex_id, frame.root_id>>

\* Lines 213-217: the next root of the command line is looked up and entered.
CallRoot ==
    /\ pc = "load"
    /\ root_idx <= Len(argv)
    /\ IF argv[root_idx] \notin DOMAIN families
       THEN /\ Raise("KeyError", argv[root_idx])
            /\ UNCHANGED <<stack, acc>>
       ELSE /\ stack' = <<Frame(argv[root_idx])>>
            /\ acc' = <<>>
            /\ pc' = "flatten"
            /\ UNCHANGED error
    /\ UNCHANGED <<catalog_vars, file_vars, id_vars, root_idx, relations,
                   totally_redundant, entities, rel_base>>

\* Lines 92-98: one gene of the family.
GeneStep ==
    /\ pc = "flatten"
    /\ Top.gi <= Len(GeneMembers(Top.root_id))
    /\ LET gene == GeneMembers(Top.root_id)[Top.gi]
           next == <<[Top EXCEPT !.gi = @ + 1]>> \o Tail(stack)
       IN  IF gene \notin DOMAIN hgnc_names
           THEN \* re.match on None
                /\ Raise("TypeError", <<>>)
                /\ UNCHANGED <<stack, acc>>
           ELSE /\ stack' = next
                /\ acc' = IF is_pseudogene(hgnc_names[gene])
                          THEN acc
                          ELSE Append(acc, GeneRel(hgnc_names[gene], Top))
                /\ UNCHANGED <<pc, error>>
    /\ UNCHANGED <<catalog_vars, file_vars, id_vars, root_idx, relations,
                   totally_redundant, entities, rel_base>>

\* Lines 101-127: one child of the family, elided or entered.
ChildStep ==
    /\ pc = "flatten"
    /\ Top.gi > Len(GeneMembers(Top.root_id))
    /\ Top.ci <= Len(ChildIds(Top.root_id))
    /\ LET child_id == ChildIds(Top.root_id)[Top.ci]
           next == <<[Top EXCEPT !.ci = @ + 1]>> \o Tail(stack)
       IN  IF Collapses(child_id)
           THEN LET gene == GeneMembers(child_id)[1]
                IN  IF gene \notin DOMAIN hgnc_names
                    THEN /\ Raise("TypeError", <<>>)
                         /\ UNCHANGED <<stack, acc>>
                    ELSE /\ stack' = next
                         /\ acc' = IF is_pseudogene(hgnc_names[gene])
                                   THEN acc
                                   ELSE Append(acc, GeneRel(hgnc_names[gene], Top))
                         /\ UNCHANGED <<pc, error>>
           ELSE IF child_id \notin DOMAIN families
           THEN /\ Raise("KeyError", child_id)
                /\ UNCHANGED <<stack, acc>>
           ELSE IF Len(stack) >= RecursionLimit
           THEN \* "maximum recursion depth exceeded"
                /\ Raise("RecursionError", <<>>)
                /\ stack' = stack
                /\ acc' = Append(acc, FamilyRel(child_id, Top))
           ELSE /\ stack' = <<Frame(child_id)>> \o next
                /\ acc' = Append(acc, FamilyRel(child_id, Top))
                /\ UNCHANGED <<pc, error>>
    /\ UNCHANGED <<catalog_vars, file_vars, id_vars, root_idx, relations,
                   totally_redundant, entities, rel_base>>

\* Line 128, and line 217 when the call was the root's.
Return ==
    /\ pc = "flatten"
    /\ Top.gi > Len(GeneMembers(Top.root_id))
    /\ Top.ci > Len(ChildIds(Top.root_id))
    /\ stack' = Tail(stack)
    /\ IF Len(stack) = 1
       THEN /\ relations' = relations \o acc
            /\ root_idx' = root_idx + 1
            /\ pc' = "load"
       ELSE UNCHANGED <<relations, root_idx, pc>>
    /\ UNCHANGED <<catalog_vars, file_vars, id_vars, acc, totally_redundant,
                   entities, rel_base, error>>

(***************************************************************************)
(* __main__ after the roots are loaded: sort, find_overlaps, filter.       *)
(***************************************************************************)

\* The sort key of line 219, (x[4], x[1]), compared as a tuple of str.
KeyLess(r1, r2) ==
    \/ StrLess(r1[5], r2[5])
    \/ r1[5] = r2[5] /\ StrLess(r1[2], r2[2])

RECURSIVE SortedOrders(_)
\* sorted(list(set(...)), key=...): the sort is stable over the iteration order
\* of a set of tuples of str, which the hash seed of the process decides, so
\* tuples of equal key come out in any order.
SortedOrders(S) ==
    IF S = {} THEN {<<>>}
    ELSE UNION { {<<m>> \o t : t \in SortedOrders(S \ {m})} :
                 m \in {x \in S : \A y \in S : ~KeyLess(y, x)} }

RECURSIVE SortedStrs(_)
\* sorted(list(set(...))) of str: the order is total.
SortedStrs(S) ==
    IF S = {} THEN <<>>
    ELSE LET m == CHOOSE x \in S : \A y \in S \ {x} : StrLess(x, y)
         IN  <<m>> \o SortedStrs(S \ {m})

\* Line 219.
SortRelations ==
    /\ pc = "load"
    /\ root_idx > Len(argv)
    /\ relations' \in SortedOrders(Range(relations))
    /\ pc' = "overlaps"
    /\ UNCHANGED <<catalog_vars, file_vars, id_vars, root_idx, stack, acc,
                   totally_redundant, entities, rel_base, error>>

\* Line 165: gene name -> target of the last HGNC relation that names it.
all_gene_names(rels) ==
    [g \in {rels[i][2] : i \in {j \in 1..Len(rels) : rels[j][1] = "HGNC"}} |->
        LET last == CHOOSE i \in 1..Len(rels) :
                        /\ rels[i][1] = "HGNC" /\ rels[i][2] = g
                        /\ \A j \in (i + 1)..Len(rels) :
                              ~(rels[j][1] = "HGNC" /\ rels[j][2] = g)
        IN  rels[last][5]]

\* Lines 174-176: fam_members[tid] as a set.
fam_members(rows, tid) ==
    {rows[i][2] : i \in {j \in 1..Len(rows) :
        rows[j][1] = "HGNC" /\ rows[j][4] = "FPLX" /\ rows[j][5] = tid}}

\* Lines 177-181: the rows of the store whose gene the run derived.
Touching(rels, rows) ==
    {i \in 1..Len(rows) : rows[i][1] = "HGNC" /\ rows[i][2] \in DOMAIN all_gene_names(rels)}

covered_families(rels, rows) == {rows[i][5] : i \in Touching(rels, rows)}

hgnc_families(rels, rows) == {all_gene_names(rels)[rows[i][2]] : i \in Touching(rels, rows)}

\* Lines 192-193: the genes all_gene_names assigns to the derived family.
hgnc_fam_members(rels, fam) ==
    {g \in DOMAIN all_gene_names(rels) : all_gene_names(rels)[g] = fam}

\* Lines 187-188 and 194-195: sorted(items, key=lambda x: list(x[1])[0]). The
\* first element of a set and the order of the items before the stable sort
\* follow the hash seed: every order that is ascending for some choice of one
\* member per family can come out.
OrdersByMember(members) ==
    LET fams == DOMAIN members
    IN  {o \in [1..Cardinality(fams) -> fams] :
            /\ \A i, j \in DOMAIN o : i # j => o[i] # o[j]
            /\ \E rep \in [fams -> UNION {members[f] : f \in fams}] :
                  /\ \A f \in fams : rep[f] \in members[f]
                  /\ \A i, j \in DOMAIN o : i < j => ~StrLess(rep[o[j]], rep[o[i]])}

\* Lines 197-200: zip pairs the two lists by position.
Zipped(ff, hf, rels, rows) ==
    {hf[i] : i \in {j \in DOMAIN ff \cap DOMAIN hf :
        fam_members(rows, ff[j]) = hgnc_fam_members(rels, hf[j])}}

\* find_overlaps: every set it can return.
find_overlaps(rels, rows) ==
    {Zipped(ff, hf, rels, rows) :
        ff \in OrdersByMember([f \in covered_families(rels, rows) |->
                                  fam_members(rows, f)]),
        hf \in OrdersByMember([f \in hgnc_families(rels, rows) |->
                                  hgnc_fam_members(rels, f)])}

\* Line 221.
FindOverlaps ==
    /\ pc = "overlaps"
    /\ totally_redundant' \in find_overlaps(relations, relations_csv)
    /\ pc' = "filter"
    /\ UNCHANGED <<catalog_vars, file_vars, id_vars, root_idx, stack, acc,
                   relations, entities, rel_base, error>>

\* Line 222.
Surviving(rels, redundant) == SelectSeq(rels, LAMBDA r : r[5] \notin redundant)

\* Lines 222-224.
FilterRelations ==
    /\ pc = "filter"
    /\ relations' = Surviving(relations, totally_redundant)
    /\ entities' = SortedStrs({relations'[i][5] : i \in 1..Len(relations')})
    /\ pc' = "add_relations"
    /\ UNCHANGED <<catalog_vars, file_vars, id_vars, root_idx, stack, acc,
                   totally_redundant, rel_base, error>>

(***************************************************************************)
(* The appends to the resource files. A row is kept as the tuple of its    *)
(* fields.                                                                 *)
(***************************************************************************)

\* Line 226. rel[:-1] drops the family id of the relation.
add_relations_to_famplex ==
    /\ pc = "add_relations"
    /\ relations_csv' = relations_csv \o
          [i \in 1..Len(relations) |-> SubSeq(relations[i], 1, 5)]
    /\ pc' = "add_entities"
    /\ UNCHANGED <<catalog_vars, entities_csv, equivalences_csv, id_vars, root_idx,
                   stack, acc, relations, totally_redundant, entities, rel_base,
                   error>>

\* Line 227.
add_entities_to_famplex ==
    /\ pc = "add_entities"
    /\ entities_csv' = entities_csv \o entities
    /\ pc' = "add_equivalences"
    /\ UNCHANGED <<catalog_vars, relations_csv, equivalences_csv, id_vars,
                   root_idx, stack, acc, relations, totally_redundant, entities,
                   rel_base, error>>

\* Line 151: the family ids of the relations.
SixthFields(rels) == {rels[i][6] : i \in 1..Len(rels)}

RECURSIVE SortedInts(_)
SortedInts(S) ==
    IF S = {} THEN <<>>
    ELSE LET m == CHOOSE x \in S : \A y \in S : x <= y
         IN  <<m>> \o SortedInts(S \ {m})

\* Lines 152-155.
Equivs(fids) ==
    [i \in 1..Len(fids) |->
        <<"HGNC_GROUP", StrOf(fids[i]), get_famplex_id(families[StrOf(fids[i])])>>]

\* Line 228: int() of each id, then families[str(fid)], then the append.
add_equivalences ==
    /\ pc = "add_equivalences"
    /\ LET ids == SixthFields(relations)
           bad == {s \in ids : ~IsIntLiteral(s)}
           hgnc_fam_ids == SortedInts({IntOf(s) : s \in ids})
           missing == {i \in 1..Len(hgnc_fam_ids) :
                          StrOf(hgnc_fam_ids[i]) \notin DOMAIN families}
       IN  IF bad # {}
           THEN /\ \E s \in bad : Raise("ValueError", s)
                /\ UNCHANGED equivalences_csv
           ELSE IF missing # {}
           THEN /\ Raise("KeyError",
                         StrOf(hgnc_fam_ids[CHOOSE i \in missing :
                                               \A j \in missing : i <= j]))
                /\ UNCHANGED equivalences_csv
           ELSE /\ equivalences_csv' = equivalences_csv \o Equivs(hgnc_fam_ids)
                /\ pc' = "done"
                /\ UNCHANGED error
    /\ UNCHANGED <<catalog_vars, relations_csv, entities_csv, id_vars, root_idx,
                   stack, acc, relations, totally_redundant, entities, rel_base>>

Next ==
    \/ CallRoot
    \/ GeneStep
    \/ ChildStep
    \/ Return
    \/ SortRelations
    \/ FindOverlaps
    \/ FilterRelations
    \/ add_relations_to_famplex
    \/ add_entities_to_famplex
    \/ add_equivalences

Spec == Init /\ [][Next]_vars

(***************************************************************************)
(* get_famplex_id alone, on families drawn from short names and            *)
(* abbreviations.                                                          *)
(***************************************************************************)

MaxNameLen == 3

NameChars == {"A", " ", "-", ","}

RECURSIVE StrsUpTo(_, _)
\* The strings over the characters S of length at most n.
StrsUpTo(S, n) ==
    IF n = 0 THEN {<<>>}
    ELSE LET P == StrsUpTo(S, n - 1)
         IN  P \cup {Append(p, c) : p \in P, c \in S}

FooBarBaz == <<"F", "o", "o", " ", "B", "a", "r", ",", " ", "B", "a", "z">>

IdNames == StrsUpTo(NameChars, MaxNameLen) \cup {FooBarBaz}

IdAbbreviations == {<<>>, <<"A", ",", " ", "B">>, <<" ", "A", ",", "B">>}

InitId ==
    /\ id_family \in [abbreviation : IdAbbreviations, name : IdNames]
    /\ id_result = <<>>
    /\ pc = "id_call"
    /\ families = FamilyTable
    /\ hgnc_names = HgncNames
    /\ children = <<>>
    /\ family_to_gene = <<>>
    /\ argv = <<>>
    /\ relations_csv = <<>>
    /\ rel_base = <<>>
    /\ entities_csv = <<>>
    /\ equivalences_csv = <<>>
    /\ root_idx = 1
    /\ stack = <<>>
    /\ acc = <<>>
    /\ relations = <<>>
    /\ totally_redundant = {}
    /\ entities = <<>>
    /\ error = NoError

\* A call get_famplex_id(family).
GetFamplexId ==
    /\ pc = "id_call"
    /\ id_result' = get_famplex_id(id_family)
    /\ pc' = "id_done"
    /\ UNCHANGED <<catalog_vars, file_vars, id_family, root_idx, stack, acc,
                   relations, totally_redundant, entities, rel_base, error>>

NextId == GetFamplexId

SpecId == InitId /\ [][NextId]_vars

(***************************************************************************)
(* Properties.                                                             *)
(***************************************************************************)

Cid(fid) == get_famplex_id(families[fid])

\* The call for the root argv[root_idx - 1] has just returned acc.
RootReturned == pc = "load" /\ root_idx > 1
ReturnedRoot == argv[root_idx - 1]

\* The children the collapse rule is about: no children, one gene, and the
\* gene resolves to a name that is no pseudogene.
CollapsedChildren(R) ==
    {C \in Range(ChildIds(R)) :
        /\ C \notin DOMAIN children
        /\ Len(GeneMembers(C)) = 1
        /\ GeneMembers(C)[1] \in DOMAIN hgnc_names
        /\ ~is_pseudogene(hgnc_names[GeneMembers(C)[1]])}

CollapsedRel(R, C) ==
    <<"HGNC", hgnc_names[GeneMembers(C)[1]], "isa", "FPLX", Cid(R), R>>

\* The genes the relations give the derived family Y, and the genes the store
\* gives the FamPlex family X.
DerivedFamilies(rels) == {r[5] : r \in {x \in Range(rels) : x[1] = "HGNC"}}
DerivedGenes(rels, Y) == {r[2] : r \in {x \in Range(rels) : x[1] = "HGNC" /\ x[5] = Y}}
ExistingFamilies(rows) ==
    {r[5] : r \in {x \in Range(rows) : x[1] = "HGNC" /\ x[4] = "FPLX"}}
ExistingGenes(rows, X) ==
    {r[2] : r \in {x \in Range(rows) : x[1] = "HGNC" /\ x[4] = "FPLX" /\ x[5] = X}}

HasTwin(rels, rows, Y) ==
    \E X \in ExistingFamilies(rows) : ExistingGenes(rows, X) = DerivedGenes(rels, Y)

\* C1: a derived family Y whose gene set equals that of a family of the store
\* is gone after the filtering step: Y is the target of no final relation, the
\* source of none, no final entity, and no surviving relation carries a family
\* id whose equivalence row would name Y.
C1_TwinExcluded ==
    [][pc = "filter" =>
         \A Y \in DerivedFamilies(relations) :
            HasTwin(relations, relations_csv, Y) =>
               /\ \A r \in Range(relations') :
                     /\ r[5] # Y
                     /\ ~(r[1] = "FPLX" /\ r[2] = Y)
                     /\ Cid(r[6]) # Y
               /\ Y \notin Range(entities')]_vars

\* C2: find_overlaps returns a derived family Y only if a family of the store
\* has exactly the genes the derived relations give Y; a family whose gene set
\* differs from every stored one keeps all its relations.
C2_RedundantOnlyIfTwin ==
    pc = "filter" =>
        \A Y \in DerivedFamilies(relations) \cup totally_redundant :
            ~HasTwin(relations, relations_csv, Y) =>
               /\ Y \notin totally_redundant
               /\ \A r \in Range(relations) :
                     r[5] = Y => r \in Range(Surviving(relations, totally_redundant))

\* C3, as stated: when get_relations_from_root(R) returns, each collapsed child
\* C of R has put (HGNC, name(g), isa, FPLX, canonicalId(R), R) in the output
\* and canonicalId(C) is the source id or target id of no relation.
C3_CollapseAsStated ==
    RootReturned =>
        \A C \in CollapsedChildren(ReturnedRoot) :
            /\ CollapsedRel(ReturnedRoot, C) \in Range(acc)
            /\ \A r \in Range(acc) : r[2] # Cid(C) /\ r[5] # Cid(C)

\* C3, amended: the relation is in the output and the family C is not: no
\* relation carries C as its sixth field, and canonicalId(C) is no target id
\* and no FPLX source id unless another family has the same canonical id. (A
\* gene whose display name equals canonicalId(C) is still an HGNC source.)
C3_Collapse ==
    RootReturned =>
        \A C \in CollapsedChildren(ReturnedRoot) :
            /\ CollapsedRel(ReturnedRoot, C) \in Range(acc)
            /\ \A r \in Range(acc) :
                  /\ r[6] # C
                  /\ (\A D \in DOMAIN families \ {C} : Cid(D) # Cid(C)) =>
                        /\ r[5] # Cid(C)
                        /\ ~(r[1] = "FPLX" /\ r[2] = Cid(C))

\* C3 witness: a root has returned with a collapsed child whose canonical id
\* is also the name of a gene in the output.
C3_Witness ==
    /\ RootReturned
    /\ \E C \in CollapsedChildren(ReturnedRoot) :
          \E r \in Range(acc) : r[1] = "HGNC" /\ r[2] = Cid(C)

\* C4: a gene the collaborator has no name for is skipped and the traversal
\* goes on, so the run never ends on the name being None.
C4_UnresolvedSkipped == ~(pc = "failed" /\ error.type = "TypeError")

\* C5: a run that fails has changed none of the three files.
C5_AllOrNothing ==
    pc = "failed" =>
        /\ relations_csv = rel_base
        /\ entities_csv = <<>>
        /\ equivalences_csv = <<>>

\* The names the claim calls pseudogene names: one or more characters, one or
\* more digits, a final P.
PseudogeneName(s) == Len(s) >= 3 /\ s[Len(s)] = "P" /\ s[Len(s) - 1] \in Digits

\* The root that returned has the genes named G1 and G2P and no children.
C6_Case ==
    /\ RootReturned
    /\ Len(GeneMembers(ReturnedRoot)) = 2
    /\ \A i \in 1..2 : GeneMembers(ReturnedRoot)[i] \in DOMAIN hgnc_names
    /\ hgnc_names[GeneMembers(ReturnedRoot)[1]] = <<"G", "1">>
    /\ hgnc_names[GeneMembers(ReturnedRoot)[2]] = <<"G", "2", "P">>
    /\ ChildIds(ReturnedRoot) = <<>>

\* C6: no relation has an HGNC source that is a pseudogene name, and a root
\* with genes G1 and G2P and no children returns exactly
\* (HGNC, G1, isa, FPLX, canonicalId(R), R).
C6_NoPseudogeneSource ==
    /\ \A r \in Range(acc) \cup Range(relations) :
          r[1] = "HGNC" => ~PseudogeneName(r[2])
    /\ C6_Case =>
          acc = <<<<"HGNC", <<"G", "1">>, "isa", "FPLX", Cid(ReturnedRoot),
                    ReturnedRoot>>>>

\* C6 witness: such a root has returned.
C6_Witness == C6_Case

\* The families the traversal has entered while still inside them.
Reentered ==
    {stack[i].root_id : i \in {k \in DOMAIN stack :
        \E j \in DOMAIN stack : j # k /\ stack[j].root_id = stack[k].root_id}}

\* C7: a traversal that has run round a cycle and stopped has stopped on a
\* configuration error that names a family of the cycle.
C7_CycleDetected ==
    (pc = "failed" /\ Reentered # {}) =>
        /\ error.type = "ConfigurationError"
        /\ error.arg \in Reentered

\* C8: on an empty store the order of the sorted relations is the only one
\* the deduplication and the sort by (target id, source id) can give.
C8_OrderDetermined ==
    (pc = "overlaps" /\ rel_base = <<>>) =>
        \A o \in SortedOrders(Range(relations)) : o = relations

\* C9, as stated: every relation get_relations_from_root(R) returns carries
\* R, and the equivalences name root ids of the command line only.
C9_RootProvenance ==
    /\ RootReturned => \A r \in Range(acc) : r[6] = ReturnedRoot
    /\ pc = "done" => \A row \in Range(equivalences_csv) : row[2] \in Range(argv)

\* C9, amended: the sixth field of a relation is the id of the family the
\* relation was emitted for, the one whose canonical id is the target: the
\* root for the root's own relations, the descendant for those of a nested
\* call. The equivalences hold one row (HGNC_GROUP, id, canonicalId) for every
\* family id that is the sixth field of a surviving relation, intermediate
\* families included.
C9_FamilyProvenance ==
    /\ \A r \in Range(acc) \cup Range(relations) :
          r[6] \in DOMAIN families /\ r[5] = get_famplex_id(families[r[6]])
    /\ pc = "done" =>
          Range(equivalences_csv) =
             {<<"HGNC_GROUP", StrOf(IntOf(r[6])),
                get_famplex_id(families[StrOf(IntOf(r[6]))])>> : r \in Range(relations)}

\* C9 witness: a finished run whose equivalences name a family that is no
\* root of the command line, from a relation of a nested call.
C9_Witness ==
    /\ pc = "done"
    /\ \E row \in Range(equivalences_csv) : row[2] \notin Range(argv)
    /\ \E r \in Range(relations) : r[1] = "HGNC" /\ r[6] \notin Range(argv)

NoAbbreviation(name) == [abbreviation |-> <<>>, name |-> name]

\* C10, as stated: the name "Foo Bar, Baz" gives "Foo_BarBaz".
C10_AsStated ==
    (pc = "id_done" /\ id_family = NoAbbreviation(FooBarBaz)) =>
        id_result = <<"F", "o", "o", "_", "B", "a", "r", "B", "a", "z">>

RECURSIVE PerChar(_)
\* Each space and each hyphen becomes "_", each comma is dropped.
PerChar(s) ==
    IF s = <<>> THEN <<>>
    ELSE (CASE Head(s) \in {" ", "-"} -> <<"_">>
            [] Head(s) = "," -> <<>>
            [] OTHER -> <<Head(s)>>) \o PerChar(Tail(s))

\* C10, amended: with an empty abbreviation the result is the trimmed name
\* with each space and hyphen turned into "_" and each comma dropped, so
\* "Foo Bar, Baz" gives "Foo_Bar_Baz": the space after the comma has become
\* "_" before the comma is dropped.
C10_FamplexIdOfName ==
    (pc = "id_done" /\ id_family.abbreviation = <<>>) =>
        /\ id_result = PerChar(Strip(id_family.name))
        /\ id_family.name = FooBarBaz =>
              id_result = <<"F", "o", "o", "_", "B", "a", "r", "_", "B", "a", "z">>

\* C10 witness: the call on the name "Foo Bar, Baz" has returned.
C10_Witness == pc = "id_done" /\ id_family = NoAbbreviation(FooBarBaz)

====
